---- MODULE Spec2Model ----
(***************************************************************************)
(* Model of streamlit_app.py: the borehole lithology dashboard.            *)
(*                                                                         *)
(* The script is re-executed top to bottom on every interaction with the   *)
(* selection control; one action (Select) models one such execution.       *)
(* Lengths are fixed-point integers in hundredths of a metre (50.0 m is    *)
(* 5000, 0.5 m is 50, the rectangle's x = 0.05 is 5), so the arithmetic of *)
(* the script is exact; binary floating-point rounding is not modelled.    *)
(* The coordinate reprojection (lines 48-53) and the map (lines 63-92) do  *)
(* not depend on the selection and are not modelled.                       *)
(***************************************************************************)
EXTENDS Integers, Sequences, FiniteSets, TLC

VARIABLES
    loca_data,     \* the literal location rows (lines 13-17)
    litho_data,    \* the literal lithology rows (lines 21-32)
    sort_ties,     \* how this build's argsort orders equal keys
    loca_df,       \* DataFrame built from loca_data (line 18)
    litho_df,      \* DataFrame built from litho_data (line 33)
    options,       \* the option list handed to the selectbox (line 105)
    selected_id,   \* the value of the selectbox (line 103)
    borehole,      \* <<row>> looked up at line 109, <<>> when not reached
    intervals,     \* the script's intervals frame (lines 110, 141-143)
    fig,           \* <<figure>> passed to st.pyplot, <<>> when none
    table,         \* the rows handed to st.dataframe, <<>> when none
    left,          \* elements emitted into the left column after the selectbox
    exception,     \* name of the uncaught exception of this run, "" when none
    first_render   \* history: per option, <<output of its first render>>

vars == <<loca_data, litho_data, sort_ties, loca_df, litho_df, options,
          selected_id, borehole, intervals, fig, table, left, exception, first_render>>

(***************************************************************************)
(* Bounds of the model.                                                    *)
(***************************************************************************)
MaxRows == 3
MaxLocs == 2

(***************************************************************************)
(* Program constants.                                                      *)
(***************************************************************************)
Margin == 50
RectX == 5
RectWidth == 90
TextX == 50
XlimRight == 100

formation_colors ==
    [HWH_CLAY |-> "#e377c2", HWH_SILTSTONE |-> "#17becf", LONDON_CLAY |-> "#bcbd22"]

default_color == "#cccccc"

LocaRow(id, gl, e, n) ==
    [LOCA_ID |-> id, LOCA_GL |-> gl, EASTING |-> e, NORTHING |-> n]

LithoRow(id, top, base, code, desc) ==
    [LOCA_ID |-> id, TOP_BG |-> top, BASE_BG |-> base,
     GEOL_CODE |-> code, GEOL_DESC |-> desc]

\* The tables as written in the source.
SampleLoca ==
    << LocaRow("BH01", 5000, 551000, 180000),
       LocaRow("BH02", 4850, 552000, 180500),
       LocaRow("BH03", 4600, 551500, 181000) >>

SampleLitho ==
    << LithoRow("BH01", 0, 100, "HWH_CLAY", "Harwich Formation silty clay"),
       LithoRow("BH01", 100, 300, "HWH_SILTSTONE", "Harwich siltstone"),
       LithoRow("BH01", 300, 500, "LONDON_CLAY", "London Clay very stiff"),
       LithoRow("BH02", 0, 200, "HWH_CLAY", "Harwich Formation silty clay"),
       LithoRow("BH02", 200, 350, "LONDON_CLAY", "London Clay sandy"),
       LithoRow("BH03", 0, 120, "HWH_CLAY", "Harwich Formation silty clay"),
       LithoRow("BH03", 120, 400, "LONDON_CLAY", "London Clay laminated") >>

(***************************************************************************)
(* Rows the replaced tables are drawn from ("Replace simulated DataFrames  *)
(* with your real AGS data", line 155): rows of the sample, a duplicated   *)
(* location id, a row of a location that is not in the location table, a   *)
(* row with base above top and a geology code without a colour.            *)
(***************************************************************************)
LocaRows ==
    { LocaRow("BH01", 5000, 551000, 180000),
      LocaRow("BH02", 4850, 552000, 180500),
      LocaRow("BH01", 4600, 551500, 181000) }

LithoRows ==
    { LithoRow("BH01", 0, 100, "HWH_CLAY", "Harwich Formation silty clay"),
      LithoRow("BH01", 100, 300, "HWH_SILTSTONE", "Harwich siltstone"),
      LithoRow("BH01", 300, 500, "LONDON_CLAY", "London Clay very stiff"),
      LithoRow("BH02", 0, 200, "HWH_CLAY", "Harwich Formation silty clay"),
      LithoRow("BH09", 0, 120, "LONDON_CLAY", "London Clay laminated"),
      LithoRow("BH01", 100, 50, "MADE_GROUND", "Made ground") }

\* the tables of lo to hi rows of S in any order, no row entered twice
SeqsUpTo(S, lo, hi) ==
    UNION { { t \in [1..n -> S] : \A i, j \in 1..n : t[i] = t[j] => i = j } :
            n \in lo..hi }

LocaTables == SeqsUpTo(LocaRows, 1, MaxLocs) \cup {SampleLoca}

LithoTables == SeqsUpTo(LithoRows, 0, MaxRows) \cup {SampleLitho}

SortTies == {"stable", "reversed"}

(***************************************************************************)
(* The operations of the script.                                           *)
(***************************************************************************)
DataFrame(data) == data

\* loca_df['LOCA_ID'].tolist()
LocaIdList(df) == [i \in 1..Len(df) |-> df[i].LOCA_ID]

\* Variant: the options are the location ids found in the lithology table.
SelectboxOptionsFromLitho(df) ==
    <<"">> \o [i \in 1..Len(litho_df) |-> litho_df[i].LOCA_ID]

\* Variant: a placeholder text takes the place of the blank option.
SelectboxOptionsPlaceholder(df) == <<"Select a borehole">> \o LocaIdList(df)

\* [''] + loca_df['LOCA_ID'].tolist()
SelectboxOptions(df) == <<"">> \o LocaIdList(df)

Elements(s) == { s[i] : i \in 1..Len(s) }

\* Variant: the branch is taken for every value.
TruthyAlways(s) == TRUE

\* if selected_id:
Truthy(s) == s # ""

\* Variant: the location frame is not filtered before .iloc[0].
LocaRowsForAny(df, id) == df

\* loca_df[loca_df['LOCA_ID'] == selected_id]
LocaRowsFor(df, id) == SelectSeq(df, LAMBDA r : r.LOCA_ID = id)

\* Variant: the lithology frame is not filtered by the selected id.
FilterByLocaIdAll(df, id) == df

\* litho_df[litho_df['LOCA_ID'] == selected_id]
FilterByLocaId(df, id) == SelectSeq(df, LAMBDA r : r.LOCA_ID = id)

\* Insertion of one row into a frame already ordered by TOP_BG; equal keys
\* keep the input order ("stable") or take the opposite one ("reversed").
RECURSIVE InsertByTop(_, _, _)
InsertByTop(sorted, r, ties) ==
    IF sorted = <<>> THEN <<r>>
    ELSE LET last == sorted[Len(sorted)]
             before == IF ties = "stable" THEN last.TOP_BG <= r.TOP_BG
                                          ELSE last.TOP_BG < r.TOP_BG
         IN IF before THEN Append(sorted, r)
            ELSE Append(InsertByTop(SubSeq(sorted, 1, Len(sorted) - 1), r, ties), last)

\* Variant: the filtered rows keep the table's order.
SortValuesUnsorted(df, ties) == df

\* .sort_values(by='TOP_BG')
RECURSIVE SortValues(_, _)
SortValues(df, ties) ==
    IF df = <<>> THEN <<>>
    ELSE InsertByTop(SortValues(SubSeq(df, 1, Len(df) - 1), ties), df[Len(df)], ties)

\* intervals.empty
Empty(df) == Len(df) = 0

\* ground_level - row['TOP_BG'], ground_level - row['BASE_BG']
ElevOD(ground_level, depth) == ground_level - depth

\* formation_colors.get(code, default_color)
FormationColor(code) ==
    IF code \in DOMAIN formation_colors THEN formation_colors[code] ELSE default_color

\* Variant: the axes of the previous run's figure are drawn on again.
SubplotsCurrentFigure ==
    IF fig = <<>>
    THEN [patches |-> <<>>, texts |-> <<>>, xlim |-> <<0, XlimRight>>,
          ylim |-> <<0, 100>>, xticks |-> "auto", ylabel |-> ""]
    ELSE fig[1]

\* plt.subplots(figsize=(2, 6)): a new figure with empty axes
Subplots ==
    [patches |-> <<>>, texts |-> <<>>, xlim |-> <<0, XlimRight>>,
     ylim |-> <<0, 100>>, xticks |-> "auto", ylabel |-> ""]

\* Variant: the rectangle is anchored at the top elevation.
RectangleFromTop(ground_level, row) ==
    LET top_m_od == ElevOD(ground_level, row.TOP_BG)
        base_m_od == ElevOD(ground_level, row.BASE_BG)
    IN [x |-> RectX, y |-> top_m_od, width |-> RectWidth,
        height |-> top_m_od - base_m_od,
        facecolor |-> FormationColor(row.GEOL_CODE), edgecolor |-> "black"]

\* patches.Rectangle((0.05, base_m_od), 0.9, top_m_od - base_m_od, ...)
Rectangle(ground_level, row) ==
    LET top_m_od == ElevOD(ground_level, row.TOP_BG)
        base_m_od == ElevOD(ground_level, row.BASE_BG)
    IN [x |-> RectX, y |-> base_m_od, width |-> RectWidth,
        height |-> top_m_od - base_m_od,
        facecolor |-> FormationColor(row.GEOL_CODE), edgecolor |-> "black"]

\* ax.text(0.5, (top_m_od+base_m_od)/2, row['GEOL_CODE'], ...)
TextLabel(ground_level, row) ==
    LET top_m_od == ElevOD(ground_level, row.TOP_BG)
        base_m_od == ElevOD(ground_level, row.BASE_BG)
    IN [x |-> TextX, y |-> (top_m_od + base_m_od) \div 2, s |-> row.GEOL_CODE]

\* for _, row in intervals.iterrows(): ax.add_patch(...); ax.text(...)
RECURSIVE DrawIntervals(_, _, _)
DrawIntervals(ax, ground_level, rows) ==
    IF rows = <<>> THEN ax
    ELSE DrawIntervals(
            [ax EXCEPT !.patches = Append(@, Rectangle(ground_level, Head(rows))),
                       !.texts = Append(@, TextLabel(ground_level, Head(rows)))],
            ground_level, Tail(rows))

\* intervals.apply(lambda r: ground_level - r['BASE_BG'], axis=1).min()
RECURSIVE MinBaseElev(_, _)
MinBaseElev(ground_level, rows) ==
    LET e == ElevOD(ground_level, Head(rows).BASE_BG)
    IN IF Len(rows) = 1 THEN e
       ELSE LET m == MinBaseElev(ground_level, Tail(rows))
            IN IF e < m THEN e ELSE m

\* ax.set_ylim(bottom, top)
SetYlim(ax, bottom, top) == [ax EXCEPT !.ylim = <<bottom, top>>]

\* ax.invert_yaxis(): the two ends of the view interval change places
InvertYaxis(ax) == [ax EXCEPT !.ylim = <<ax.ylim[2], ax.ylim[1]>>]

\* lines 113-137: the figure of the lithology column
LithologyFigure(ground_level, rows) ==
    LET drawn == DrawIntervals(Subplots, ground_level, rows)
        limited == SetYlim(drawn, MinBaseElev(ground_level, rows) - Margin,
                           ground_level + Margin)
        inverted == InvertYaxis([limited EXCEPT !.xlim = <<0, XlimRight>>])
    IN [inverted EXCEPT !.xticks = "none", !.ylabel = "Elevation (m OD)"]

\* intervals['Top_elev_OD'] = ...; intervals['Base_elev_OD'] = ...
WithElevations(rows, ground_level) ==
    [i \in 1..Len(rows) |->
        [LOCA_ID |-> rows[i].LOCA_ID, TOP_BG |-> rows[i].TOP_BG,
         BASE_BG |-> rows[i].BASE_BG, GEOL_CODE |-> rows[i].GEOL_CODE,
         GEOL_DESC |-> rows[i].GEOL_DESC,
         Top_elev_OD |-> ElevOD(ground_level, rows[i].TOP_BG),
         Base_elev_OD |-> ElevOD(ground_level, rows[i].BASE_BG)]]

\* Variant: the frame is displayed with all of its columns.
TableColumnsAll(df) == df

\* intervals[['Top_elev_OD', 'Base_elev_OD', 'GEOL_CODE', 'GEOL_DESC']]
TableColumns(df) ==
    [i \in 1..Len(df) |->
        [Top_elev_OD |-> df[i].Top_elev_OD, Base_elev_OD |-> df[i].Base_elev_OD,
         GEOL_CODE |-> df[i].GEOL_CODE, GEOL_DESC |-> df[i].GEOL_DESC]]

PromptElements == <<"markdown:prompt">>
InfoElements == <<"info:no-lithology">>
ChartElements == <<"pyplot", "markdown:interval-table", "dataframe">>
ErrorElements == <<"exception">>

(***************************************************************************)
(* One execution of the left column (lines 101-151) with the selectbox     *)
(* returning sel: the values the script leaves behind.                     *)
(***************************************************************************)
LeftColumn(ldf, tdf, ties, sel) ==
    LET none == [borehole |-> <<>>, intervals |-> <<>>, fig |-> <<>>,
                 table |-> <<>>, left |-> PromptElements, exception |-> ""]
    IN IF ~Truthy(sel) THEN none
       ELSE LET found == LocaRowsFor(ldf, sel)
            IN IF Len(found) = 0
               THEN [none EXCEPT !.left = ErrorElements, !.exception = "IndexError"]
               ELSE LET bh == found[1]
                        ivs == SortValues(FilterByLocaId(tdf, sel), ties)
                    IN IF ~Empty(ivs)
                       THEN LET ground_level == bh.LOCA_GL
                                elev == WithElevations(ivs, ground_level)
                            IN [borehole |-> <<bh>>,
                                intervals |-> elev,
                                fig |-> <<LithologyFigure(ground_level, ivs)>>,
                                table |-> TableColumns(elev),
                                left |-> ChartElements,
                                exception |-> ""]
                       ELSE [none EXCEPT !.borehole = <<bh>>, !.left = InfoElements]

Output(run) ==
    [left |-> run.left, fig |-> run.fig, table |-> run.table,
     exception |-> run.exception]

\* The first execution: the selectbox starts at index 0, the blank option.
Init ==
    /\ loca_data \in LocaTables
    /\ litho_data \in LithoTables
    /\ sort_ties \in SortTies
    /\ loca_df = DataFrame(loca_data)
    /\ litho_df = DataFrame(litho_data)
    /\ options = SelectboxOptions(loca_df)
    /\ selected_id = options[1]
    /\ LET run == LeftColumn(loca_df, litho_df, sort_ties, selected_id)
       IN /\ borehole = run.borehole
          /\ intervals = run.intervals
          /\ fig = run.fig
          /\ table = run.table
          /\ left = run.left
          /\ exception = run.exception
          /\ first_render = [o \in Elements(options) |->
                                IF o = selected_id THEN <<Output(run)>> ELSE <<>>]

\* The user picks option v: the whole script runs again with that value.
Select(v) ==
    /\ v \in Elements(options)
    /\ loca_df' = DataFrame(loca_data)
    /\ litho_df' = DataFrame(litho_data)
    /\ options' = SelectboxOptions(loca_df')
    /\ selected_id' = v
    /\ LET run == LeftColumn(loca_df', litho_df', sort_ties, v)
       IN /\ borehole' = run.borehole
          /\ intervals' = run.intervals
          /\ fig' = run.fig
          /\ table' = run.table
          /\ left' = run.left
          /\ exception' = run.exception
          /\ first_render' = IF v \in DOMAIN first_render /\ first_render[v] # <<>>
                             THEN first_render
                             ELSE [o \in DOMAIN first_render \cup {v} |->
                                     IF o = v THEN <<Output(run)>> ELSE first_render[o]]
    /\ UNCHANGED <<loca_data, litho_data, sort_ties>>

Next == \E v \in Elements(options) : Select(v)

Spec == Init /\ [][Next]_vars

(***************************************************************************)
(* Vocabulary of the properties, defined on the literal tables.            *)
(***************************************************************************)
Idx(s) == 1..Len(s)

LocaIds == { loca_data[k].LOCA_ID : k \in Idx(loca_data) }

UniqueLocaIds ==
    \A j, k \in Idx(loca_data) :
        loca_data[j].LOCA_ID = loca_data[k].LOCA_ID => j = k

\* positions of the lithology rows of location id
LithoIdxFor(id) == { i \in Idx(litho_data) : litho_data[i].LOCA_ID = id }

OwnFields(r) ==
    LithoRow(r.LOCA_ID, r.TOP_BG, r.BASE_BG, r.GEOL_CODE, r.GEOL_DESC)

Occurrences(s, r) == Cardinality({ i \in Idx(s) : OwnFields(s[i]) = r })

HasIntervals == selected_id # "" /\ LithoIdxFor(selected_id) # {}

ChartShown == left = ChartElements /\ Len(fig) = 1

Patches == fig[1].patches

SetMin(S) == CHOOSE m \in S : \A x \in S : m <= x

OrphanRows == { i \in Idx(litho_data) : litho_data[i].LOCA_ID \notin LocaIds }

\* C1: for a selected id with at least one lithology row, the rendered
\* interval list is sorted ascending by TOP_BG and holds exactly the rows of
\* the lithology table with that LOCA_ID: same count, none dropped,
\* duplicated or taken from another location.
C1_SortedExactRows ==
    HasIntervals =>
        /\ ChartShown
        /\ \A i \in 1..(Len(intervals) - 1) :
              intervals[i].TOP_BG <= intervals[i + 1].TOP_BG
        /\ Len(intervals) = Cardinality(LithoIdxFor(selected_id))
        /\ \A i \in Idx(intervals) : intervals[i].LOCA_ID = selected_id
        /\ \A i \in LithoIdxFor(selected_id) :
              Occurrences(intervals, litho_data[i]) =
                  Occurrences(litho_data, litho_data[i])
        /\ Len(Patches) = Len(intervals)
        /\ Len(table) = Len(intervals)

\* a chart whose rows were out of order in the table, next to rows of
\* another location
C1_Witness ==
    /\ HasIntervals
    /\ ChartShown
    /\ \E i, j \in LithoIdxFor(selected_id) :
          i < j /\ litho_data[i].TOP_BG > litho_data[j].TOP_BG
    /\ \E i \in Idx(litho_data) : litho_data[i].LOCA_ID # selected_id

\* C2: every rendered row has top elevation = ground level - top depth and
\* base elevation = ground level - base depth, the ground level being the
\* LOCA_GL of a location row with the selected id; in the rectangle and in
\* the table's Top_elev_OD / Base_elev_OD (BH01, 50.0, (1, 3) gives 49.0
\* and 47.0).
C2_Elevations ==
    ChartShown =>
        \E k \in Idx(loca_data) :
            /\ loca_data[k].LOCA_ID = selected_id
            /\ \A i \in Idx(intervals) :
                  LET top == loca_data[k].LOCA_GL - intervals[i].TOP_BG
                      base == loca_data[k].LOCA_GL - intervals[i].BASE_BG
                  IN /\ i \in Idx(Patches) /\ i \in Idx(table)
                     /\ Patches[i].y = base
                     /\ Patches[i].y + Patches[i].height = top
                     /\ table[i].Top_elev_OD = top
                     /\ table[i].Base_elev_OD = base
                     /\ intervals[i].Top_elev_OD = top
                     /\ intervals[i].Base_elev_OD = base

\* the example of the specification, on a table with a second location of
\* another ground level
C2_Witness ==
    /\ ChartShown
    /\ UniqueLocaIds
    /\ selected_id = "BH01"
    /\ \E k \in Idx(loca_data) : loca_data[k].LOCA_GL # 5000
    /\ \E i \in Idx(intervals) :
          /\ intervals[i].TOP_BG = 100 /\ intervals[i].BASE_BG = 300
          /\ table[i].Top_elev_OD = 4900 /\ table[i].Base_elev_OD = 4700

\* C3: a selected id without lithology rows gives the empty-state message,
\* no chart, no interval table and no runtime error.
C3_EmptyState ==
    (selected_id # "" /\ LithoIdxFor(selected_id) = {}) =>
        /\ left = InfoElements
        /\ fig = <<>>
        /\ table = <<>>
        /\ exception = ""

\* a location without rows is selected while other locations have rows
C3_Witness ==
    /\ selected_id # ""
    /\ LithoIdxFor(selected_id) = {}
    /\ litho_data # <<>>
    /\ left = InfoElements

\* C4: the selection is blank initially, and whenever it is blank the pane
\* shows the prompt and no chart, no interval table, no empty-state message.
C4_BlankPrompt ==
    /\ selected_id = ""
    /\ [](selected_id = "" =>
            /\ left = PromptElements
            /\ fig = <<>>
            /\ table = <<>>
            /\ exception = "")

\* the blank option selected again after a chart was rendered
C4_Witness ==
    /\ selected_id = ""
    /\ left = PromptElements
    /\ \E o \in DOMAIN first_render :
          /\ o # ""
          /\ first_render[o] # <<>>
          /\ first_render[o][1].left = ChartElements

TableFields == {"Top_elev_OD", "Base_elev_OD", "GEOL_CODE", "GEOL_DESC"}

IntervalFields == {"LOCA_ID", "TOP_BG", "BASE_BG", "GEOL_CODE", "GEOL_DESC"}

\* one table row per rectangle, in the order of the sorted intervals
SameRowsAsChart ==
    /\ Len(table) = Len(Patches)
    /\ Len(table) = Len(intervals)
    /\ \A i \in Idx(table) :
          /\ table[i].GEOL_CODE = intervals[i].GEOL_CODE
          /\ table[i].GEOL_DESC = intervals[i].GEOL_DESC
          /\ table[i].Top_elev_OD = intervals[i].Top_elev_OD
          /\ table[i].Base_elev_OD = intervals[i].Base_elev_OD
          /\ Patches[i].y = table[i].Base_elev_OD
          /\ Patches[i].y + Patches[i].height = table[i].Top_elev_OD
          /\ fig[1].texts[i].s = table[i].GEOL_CODE

\* C6 as stated: the table has the rows of the chart in the same order and
\* each row carries the interval's own fields, top and base depth included,
\* with the two elevation columns appended.
C6_TableCarriesDepths ==
    ChartShown =>
        /\ SameRowsAsChart
        /\ \A i \in Idx(table) :
              DOMAIN table[i] = IntervalFields \cup {"Top_elev_OD", "Base_elev_OD"}

\* C6: the table has the rows of the chart in the same order; each row has
\* the two elevation columns, the geology code and the description, and
\* neither the depths nor the location id.
C6_TableColumns ==
    ChartShown =>
        /\ SameRowsAsChart
        /\ \A i \in Idx(table) : DOMAIN table[i] = TableFields

\* a table of two rows or more
C6_Witness ==
    /\ ChartShown
    /\ Len(table) >= 2
    /\ table[1].GEOL_CODE # table[2].GEOL_CODE

\* a is displayed above b on the axes of the figure
DisplayedAbove(a, b) ==
    IF fig[1].ylim[1] < fig[1].ylim[2] THEN a > b ELSE a < b

\* C7: the top end of the vertical axis shows ground level plus the margin,
\* the bottom end the minimum base elevation minus the margin, and an
\* interval of smaller top depth is drawn above one of larger top depth.
C7_GroundLevelAtTop ==
    ChartShown =>
        LET gl == borehole[1].LOCA_GL
            minbase == SetMin({ gl - intervals[i].BASE_BG : i \in Idx(intervals) })
        IN /\ fig[1].ylim = <<minbase - Margin, gl + Margin>>
           /\ \A i, j \in Idx(intervals) :
                 intervals[i].TOP_BG < intervals[j].TOP_BG =>
                     DisplayedAbove(gl - intervals[i].TOP_BG,
                                    gl - intervals[j].TOP_BG)

\* C8 as stated: a lithology row of a location that is not in the location
\* table aborts the render with a runtime error.
C8_OrphanAborts ==
    OrphanRows # {} =>
        /\ exception # ""
        /\ left \notin {PromptElements, InfoElements, ChartElements}

\* C8: a lithology row of a location that is not in the location table is
\* never offered, never rendered and raises nothing: the render ends with
\* the prompt, the empty-state message or the chart of the selection.
C8_OrphanIgnored ==
    OrphanRows # {} =>
        /\ exception = ""
        /\ left \in {PromptElements, InfoElements, ChartElements}
        /\ \A i \in OrphanRows : litho_data[i].LOCA_ID \notin Elements(options)
        /\ \A i \in Idx(intervals) : intervals[i].LOCA_ID \in LocaIds

\* a chart rendered from a table that holds such a row
C8_Witness ==
    /\ OrphanRows # {}
    /\ ChartShown

ValidDepths ==
    \A i \in Idx(intervals) :
        intervals[i].BASE_BG > intervals[i].TOP_BG /\ intervals[i].TOP_BG >= 0

Contiguous ==
    \A i \in 1..(Len(intervals) - 1) :
        intervals[i].BASE_BG = intervals[i + 1].TOP_BG

\* C9: with base > top >= 0 in every interval, the axis range is
\* [min base elevation - 0.5, ground level + 0.5], every rectangle spans
\* from its base elevation to its top elevation with positive height inside
\* that range, and contiguous intervals tile the column.
C9_RectanglesInRange ==
    (ChartShown /\ ValidDepths) =>
        LET gl == borehole[1].LOCA_GL
            lo == SetMin({fig[1].ylim[1], fig[1].ylim[2]})
            hi == -SetMin({-fig[1].ylim[1], -fig[1].ylim[2]})
        IN /\ lo = SetMin({ gl - intervals[i].BASE_BG : i \in Idx(intervals) }) - Margin
           /\ hi = gl + Margin
           /\ Len(Patches) = Len(intervals)
           /\ \A i \in Idx(Patches) :
                 /\ Patches[i].y = gl - intervals[i].BASE_BG
                 /\ Patches[i].y + Patches[i].height = gl - intervals[i].TOP_BG
                 /\ Patches[i].height > 0
                 /\ lo <= Patches[i].y
                 /\ Patches[i].y + Patches[i].height <= hi
           /\ Contiguous =>
                 /\ \A i \in 1..(Len(Patches) - 1) :
                       Patches[i + 1].y + Patches[i + 1].height = Patches[i].y
                 /\ Patches[1].y + Patches[1].height = gl - intervals[1].TOP_BG
                 /\ \A i, j \in Idx(Patches) :
                       i < j => Patches[j].y + Patches[j].height <= Patches[i].y

\* a column of contiguous intervals
C9_Witness ==
    /\ ChartShown
    /\ ValidDepths
    /\ Contiguous
    /\ Len(Patches) >= 2

\* C10: the options are the blank option followed by all location ids, the
\* selection is blank or a location id, the lookup of its row finds a row
\* and raises nothing, and with unique ids the row found is the selected
\* location's.
C10_SelectionInTable ==
    /\ options = <<"">> \o [k \in Idx(loca_data) |-> loca_data[k].LOCA_ID]
    /\ selected_id \in {""} \cup LocaIds
    /\ exception = ""
    /\ selected_id # "" =>
          /\ Len(borehole) = 1
          /\ borehole[1].LOCA_ID = selected_id
          /\ UniqueLocaIds =>
                \A k \in Idx(loca_data) :
                    loca_data[k].LOCA_ID = selected_id => borehole[1] = loca_data[k]

\* the last location of a table of unique ids is selected
C10_Witness ==
    /\ UniqueLocaIds
    /\ Len(loca_data) >= 2
    /\ selected_id = loca_data[Len(loca_data)].LOCA_ID
    /\ Len(borehole) = 1

====
